---- MODULE Spec2Model ----
(***************************************************************************)
(* Model of myWhoosh2Garmin.py: main() authenticates to Garmin, cleans the *)
(* most recent .fit file (cleanup_fit_file: one forward pass over the      *)
(* decoded messages) and uploads the cleaned copy.                         *)
(*                                                                         *)
(* Optional message fields are sets of at most one value: {} is a field    *)
(* that is absent (fit_tool returns None), {v} a field holding v.          *)
(* Session averages are exact rationals <<num, den>> in lowest terms, so   *)
(* that Python's true division sum / len is not rounded to an integer.     *)
(***************************************************************************)
EXTENDS Integers, Sequences, FiniteSets

\* Longest decoded message sequence explored.
MaxLen == 4

VARIABLES
    pc,                 \* position of the process in main() and its callees
    exit_status,        \* -1 while running, else the process exit status
    session,            \* garth client: "none" or "valid"
    auth_path,          \* outcome of authenticate_to_garmin
    new_file_path,      \* value returned by cleanup_and_save_fit_file
    input,              \* fit_file.records as decoded (never changed)
    records,            \* the message objects, mutated in place by the pass
    builder,            \* FitFileBuilder: references (indices) to messages added
    pos,                \* index of the next message of the for loop
    cadence_values,     \* accumulation buffers of cleanup_fit_file
    power_values,
    heart_rate_values,
    dest,               \* the file at new_file_path: "absent", "partial", "complete"
    opened,             \* paths upload_fit_file_to_garmin passed to open()
    uploaded            \* paths handed to garth.client.upload

vars == <<pc, exit_status, session, auth_path, new_file_path, input, records,
          builder, pos, cadence_values, power_values, heart_rate_values,
          dest, opened, uploaded>>

passVars == <<input, records, builder, pos, cadence_values, power_values,
              heart_rate_values>>

-----------------------------------------------------------------------------
\* Messages

NoValue == {}

RecordMessage(c, p, h, t) ==
    [kind |-> "RecordMessage", cadence |-> c, power |-> p, heart_rate |-> h,
     temperature |-> t]

SessionMessage(c, p, h) ==
    [kind |-> "SessionMessage", avg_cadence |-> c, avg_power |-> p,
     avg_heart_rate |-> h]

FileCreatorMessage == [kind |-> "FileCreatorMessage"]
LapMessage == [kind |-> "LapMessage"]
OtherMessage == [kind |-> "OtherMessage"]

\* Messages a decoded file is made of.  Every statistic occurs absent, zero
\* and non-zero; temperature occurs present and absent.
Messages ==
    { RecordMessage(NoValue, {3}, {1}, {25}),
      RecordMessage({2}, {0}, NoValue, NoValue),
      SessionMessage(NoValue, {<<0, 1>>}, {<<5, 1>>}),
      SessionMessage({<<0, 1>>}, {<<7, 1>>}, NoValue),
      SessionMessage({<<6, 1>>}, NoValue, {<<0, 1>>}),
      SessionMessage(NoValue, NoValue, NoValue),
      FileCreatorMessage, LapMessage, OtherMessage }

Streams == UNION { [1..n -> Messages] : n \in 0..MaxLen }

-----------------------------------------------------------------------------
\* Arithmetic of the pass

RECURSIVE GCD(_, _)
GCD(a, b) == IF b = 0 THEN a ELSE GCD(b, a % b)

RECURSIVE Sum(_)
Sum(s) == IF s = <<>> THEN 0 ELSE Head(s) + Sum(Tail(s))

\* Python's int / int: the exact quotient.
TrueDiv(s, n) == LET g == GCD(s, n) IN <<s \div g, n \div g>>

Zero == <<0, 1>>

\* Truth value of a sample field: None and 0 are falsy.
Truthy(field) == field # NoValue /\ field # {0}

\* Truth value of a session average: None and 0 are falsy.
TruthyAvg(field) == field # NoValue /\ field # {Zero}

\* message.cadence if message.cadence else 0
ValueOrZero(field) == IF Truthy(field) THEN CHOOSE v \in field : TRUE ELSE 0

\* Floor division (//) in place of true division.
MeanFloorDiv(values) ==
    IF values # <<>> THEN <<Sum(values) \div Len(values), 1>> ELSE Zero

\* sum(values) / len(values) if values else 0
Mean(values) ==
    IF values # <<>> THEN TrueDiv(Sum(values), Len(values)) ELSE Zero

-----------------------------------------------------------------------------
\* cleanup_fit_file: the body of the for loop

\* LapMessage left out of the isinstance tuple.
IsDroppedFileCreatorOnly(message) == message.kind = "FileCreatorMessage"

\* isinstance(message, (FileCreatorMessage, LapMessage))
IsDropped(message) == message.kind \in {"FileCreatorMessage", "LapMessage"}

\* remove_field not called.
KeepTemperature(message) == message

\* message.remove_field(RecordTemperatureField.ID)
RemoveTemperature(message) == [message EXCEPT !.temperature = NoValue]

\* A sample without the value is skipped instead of counted as 0.
ObserveIfPresent(values, field) ==
    IF Truthy(field) THEN Append(values, ValueOrZero(field)) ELSE values

\* values.append(message.x if message.x else 0)
Observe(values, field) == Append(values, ValueOrZero(field))

\* The average is overwritten without looking at the incoming value.
PatchAverageAlways(avg, values) == {Mean(values)}

\* if not message.avg_x: message.avg_x = sum(values) / len(values) if values else 0
PatchAverage(avg, values) == IF ~TruthyAvg(avg) THEN {Mean(values)} ELSE avg

\* The buffers are not emptied after a SessionMessage.
KeepBuffer(values) == values

\* values = [] after a SessionMessage
ResetBuffer(values) == <<>>

\* The message is put in front of those already added.
BuilderPrepend(b, i) == <<i>> \o b

\* builder.add(message): the builder keeps a reference to the message object
BuilderAdd(b, i) == Append(b, i)

\* State of the pass at its start: nothing added, empty buffers.
InitPass(stream) ==
    [records |-> stream, builder |-> <<>>, cadence_values |-> <<>>,
     power_values |-> <<>>, heart_rate_values |-> <<>>]

\* One iteration of `for record in fit_file.records` on message i.
ProcessMessage(st, i) ==
    LET message == st.records[i] IN
    IF IsDropped(message) THEN st
    ELSE IF message.kind = "RecordMessage" THEN
        [st EXCEPT
            !.records[i] = RemoveTemperature(message),
            !.cadence_values = Observe(@, message.cadence),
            !.power_values = Observe(@, message.power),
            !.heart_rate_values = Observe(@, message.heart_rate),
            !.builder = BuilderAdd(@, i)]
    ELSE IF message.kind = "SessionMessage" THEN
        [st EXCEPT
            !.records[i] =
                [message EXCEPT
                    !.avg_cadence = PatchAverage(@, st.cadence_values),
                    !.avg_power = PatchAverage(@, st.power_values),
                    !.avg_heart_rate = PatchAverage(@, st.heart_rate_values)],
            !.cadence_values = ResetBuffer(@),
            !.power_values = ResetBuffer(@),
            !.heart_rate_values = ResetBuffer(@),
            !.builder = BuilderAdd(@, i)]
    ELSE [st EXCEPT !.builder = BuilderAdd(@, i)]

\* The whole loop on a stream, from message i on.
RECURSIVE RunFrom(_, _)
RunFrom(st, i) ==
    IF i > Len(st.records) THEN st ELSE RunFrom(ProcessMessage(st, i), i + 1)

RunPass(stream) == RunFrom(InitPass(stream), 1)

PassState ==
    [records |-> records, builder |-> builder,
     cadence_values |-> cadence_values, power_values |-> power_values,
     heart_rate_values |-> heart_rate_values]

-----------------------------------------------------------------------------
\* Outcomes of the calls into garth, fit_tool and the file system

ResumeOutcomes == {"ok", "GarthException", "OtherError"}
UsernameOutcomes == {"ok", "GarthException"}
LoginOutcomes == {"ok", "GarthHTTPError", "GarthException", "OtherError"}
DecodeOutcomes == {"ok", "Exception"}
BuildOutcomes == {"ok", "Exception"}
OpenOutcomes == {"ok", "Exception"}
WriteOutcomes == {"ok", "Exception"}
UploadOutcomes == {"ok", "GarthHTTPError"}

\* The except clause logs the wrong credentials and does not exit.
GetCredentialsNoExit(login) ==
    CASE login = "ok" ->
            [control |-> "return", session |-> "valid", path |-> <<"logged_in">>]
      [] login = "GarthHTTPError" ->
            [control |-> "return", session |-> "none",
             path |-> <<"wrong_credentials">>]
      [] login = "GarthException" ->
            [control |-> "raise_GarthException", session |-> "none",
             path |-> <<"login_error">>]
      [] OTHER ->
            [control |-> "raise_OtherError", session |-> "none",
             path |-> <<"login_crash">>]

\* get_credentials_for_garmin: garth.login, garth.save; sys.exit(1) on
\* GarthHTTPError, every other exception leaves the function.
GetCredentialsForGarmin(login) ==
    CASE login = "ok" ->
            [control |-> "return", session |-> "valid", path |-> <<"logged_in">>]
      [] login = "GarthHTTPError" ->
            [control |-> "exit", session |-> "none",
             path |-> <<"wrong_credentials">>]
      [] login = "GarthException" ->
            [control |-> "raise_GarthException", session |-> "none",
             path |-> <<"login_error">>]
      [] OTHER ->
            [control |-> "raise_OtherError", session |-> "none",
             path |-> <<"login_crash">>]

\* authenticate_to_garmin: the nested try blocks.  A GarthException that
\* leaves the inner block, the one of get_credentials_for_garmin included,
\* is caught by the outer except clause, which exits with status 1.
AuthenticateOutcome(tokens_exist, resume, username, login) ==
    LET creds == GetCredentialsForGarmin(login)
        inner ==
            IF tokens_exist THEN
                IF resume = "ok" THEN
                    IF username = "ok"
                    THEN [control |-> "return", session |-> "valid",
                          path |-> <<"resumed">>]
                    ELSE [creds EXCEPT !.path = <<"session_expired">> \o @]
                ELSE IF resume = "GarthException"
                THEN [control |-> "raise_GarthException", session |-> "none",
                      path |-> <<"resume_error">>]
                ELSE [control |-> "raise_OtherError", session |-> "none",
                      path |-> <<"resume_crash">>]
            ELSE [creds EXCEPT !.path = <<"no_session">> \o @]
    IN  IF inner.control = "raise_GarthException"
        THEN [inner EXCEPT !.control = "exit"]
        ELSE inner

\* bool(path): None is falsy, every Path object (Path() too) is truthy.
PathTruthy(path) == path # "None"

\* path.exists(): Path() is the current directory.
PathExists(path) ==
    CASE path = "EmptyPath" -> TRUE
      [] path = "NewFile" -> dest # "absent"
      [] OTHER -> FALSE

-----------------------------------------------------------------------------
Init ==
    /\ pc = "authenticate"
    /\ exit_status = -1
    /\ session = "none"
    /\ auth_path = <<>>
    /\ new_file_path = "unset"
    /\ input = <<>>
    /\ records = <<>>
    /\ builder = <<>>
    /\ pos = 1
    /\ cadence_values = <<>>
    /\ power_values = <<>>
    /\ heart_rate_values = <<>>
    /\ dest = "absent"
    /\ opened = {}
    /\ uploaded = {}

\* main: authenticate_to_garmin()
AuthenticateToGarmin ==
    /\ pc = "authenticate"
    /\ \E tokens_exist \in BOOLEAN, resume \in ResumeOutcomes,
          username \in UsernameOutcomes, login \in LoginOutcomes :
        LET outcome == AuthenticateOutcome(tokens_exist, resume, username, login)
        IN  /\ auth_path' = outcome.path
            /\ session' = outcome.session
            /\ CASE outcome.control = "return" ->
                        pc' = "cleanup_and_save" /\ exit_status' = exit_status
                 [] outcome.control = "exit" ->
                        pc' = "exit" /\ exit_status' = 1
                 [] OTHER ->
                        pc' = "crashed" /\ exit_status' = 1
    /\ UNCHANGED <<new_file_path, dest, opened, uploaded>>
    /\ UNCHANGED passVars

\* cleanup_and_save_fit_file up to the call of cleanup_fit_file
CleanupAndSaveFitFile ==
    /\ pc = "cleanup_and_save"
    /\ \E is_dir \in BOOLEAN, has_fit_files \in BOOLEAN :
        IF is_dir /\ has_fit_files
        THEN /\ pc' = "from_file"
             /\ new_file_path' = new_file_path
        ELSE /\ pc' = "main_if"
             /\ new_file_path' = "EmptyPath"
    /\ UNCHANGED <<exit_status, session, auth_path, dest, opened, uploaded>>
    /\ UNCHANGED passVars

\* The except clause of cleanup_and_save_fit_file: log, fall off the end of
\* the function (return None); the locals of cleanup_fit_file are gone.
HandlerReturn(path) ==
    /\ pc' = "main_if"
    /\ new_file_path' = path
    /\ input' = <<>>
    /\ records' = <<>>
    /\ builder' = <<>>
    /\ pos' = 1
    /\ cadence_values' = <<>>
    /\ power_values' = <<>>
    /\ heart_rate_values' = <<>>

\* cleanup_fit_file: FitFile.from_file and the three empty lists
FromFile ==
    /\ pc = "from_file"
    /\ \E decode \in DecodeOutcomes :
        IF decode = "ok"
        THEN \E stream \in Streams :
                /\ input' = stream
                /\ records' = stream
                /\ builder' = <<>>
                /\ pos' = 1
                /\ cadence_values' = <<>>
                /\ power_values' = <<>>
                /\ heart_rate_values' = <<>>
                /\ pc' = "loop"
                /\ new_file_path' = new_file_path
        ELSE HandlerReturn("None")
    /\ UNCHANGED <<exit_status, session, auth_path, dest, opened, uploaded>>

\* cleanup_fit_file: one iteration of the for loop
LoopIteration ==
    /\ pc = "loop"
    /\ pos <= Len(records)
    /\ LET st == ProcessMessage(PassState, pos) IN
        /\ records' = st.records
        /\ builder' = st.builder
        /\ cadence_values' = st.cadence_values
        /\ power_values' = st.power_values
        /\ heart_rate_values' = st.heart_rate_values
    /\ pos' = pos + 1
    /\ UNCHANGED <<pc, exit_status, session, auth_path, new_file_path, input,
                   dest, opened, uploaded>>

\* cleanup_fit_file: builder.build() after the loop
Build ==
    /\ pc = "loop"
    /\ pos > Len(records)
    /\ \E build \in BuildOutcomes :
        IF build = "ok"
        THEN /\ pc' = "to_file"
             /\ UNCHANGED new_file_path
             /\ UNCHANGED passVars
        ELSE HandlerReturn("None")
    /\ UNCHANGED <<exit_status, session, auth_path, dest, opened, uploaded>>

\* out_file.to_file: the destination is opened for writing (created empty)
ToFileOpen ==
    /\ pc = "to_file"
    /\ \E open \in OpenOutcomes :
        IF open = "ok"
        THEN /\ pc' = "write"
             /\ dest' = "partial"
             /\ UNCHANGED new_file_path
             /\ UNCHANGED passVars
        ELSE /\ HandlerReturn("None")
             /\ dest' = dest
    /\ UNCHANGED <<exit_status, session, auth_path, opened, uploaded>>

\* out_file.to_file: the bytes are written; cleanup_fit_file returns and
\* cleanup_and_save_fit_file returns new_file_path
ToFileWrite ==
    /\ pc = "write"
    /\ \E write \in WriteOutcomes :
        IF write = "ok"
        THEN /\ HandlerReturn("NewFile")
             /\ dest' = "complete"
        ELSE /\ HandlerReturn("None")
             /\ dest' = dest
    /\ UNCHANGED <<exit_status, session, auth_path, opened, uploaded>>

\* main: if new_file_path: upload_fit_file_to_garmin(new_file_path)
MainUpload ==
    /\ pc = "main_if"
    /\ IF PathTruthy(new_file_path)
       THEN IF PathExists(new_file_path)
            THEN IF new_file_path = "NewFile"
                 THEN \E upload \in UploadOutcomes :
                        /\ opened' = opened \cup {new_file_path}
                        /\ uploaded' = uploaded \cup {new_file_path}
                        /\ pc' = "done"
                        /\ exit_status' = 0
                 ELSE \* open() of a directory: IsADirectoryError, not caught
                      /\ opened' = opened \cup {new_file_path}
                      /\ uploaded' = uploaded
                      /\ pc' = "crashed"
                      /\ exit_status' = 1
            ELSE /\ pc' = "done"
                 /\ exit_status' = 0
                 /\ UNCHANGED <<opened, uploaded>>
       ELSE /\ pc' = "done"
            /\ exit_status' = 0
            /\ UNCHANGED <<opened, uploaded>>
    /\ UNCHANGED <<session, auth_path, new_file_path, dest>>
    /\ UNCHANGED passVars

Next ==
    \/ AuthenticateToGarmin
    \/ CleanupAndSaveFitFile
    \/ FromFile
    \/ LoopIteration
    \/ Build
    \/ ToFileOpen
    \/ ToFileWrite
    \/ MainUpload

Spec == Init /\ [][Next]_vars

-----------------------------------------------------------------------------
\* Vocabulary of the properties, stated on the decoded input alone

InPass == pc \in {"loop", "to_file", "write"}

\* Number of messages of the input the loop has gone through.
Processed == pos - 1

IsFileCreatorOrLap(i) == input[i].kind \in {"FileCreatorMessage", "LapMessage"}
IsSample(i) == input[i].kind = "RecordMessage"
IsSession(i) == input[i].kind = "SessionMessage"

Stats == {"cadence", "power", "heart_rate"}

SampleField(m, stat) ==
    CASE stat = "cadence" -> m.cadence
      [] stat = "power" -> m.power
      [] OTHER -> m.heart_rate

AvgField(m, stat) ==
    CASE stat = "cadence" -> m.avg_cadence
      [] stat = "power" -> m.avg_power
      [] OTHER -> m.avg_heart_rate

Buffer(stat) ==
    CASE stat = "cadence" -> cadence_values
      [] stat = "power" -> power_values
      [] OTHER -> heart_rate_values

\* Index of the last SessionMessage before message i (0: there is none).
PrevSession(i) ==
    LET before == {j \in 1..(i - 1) : IsSession(j)}
    IN  IF before = {} THEN 0 ELSE CHOOSE j \in before : \A k \in before : k <= j

\* The Sample messages between the previous SessionMessage and message i.
Segment(i) == {j \in (PrevSession(i) + 1)..(i - 1) : IsSample(j)}

\* A sample's contribution to a sum: its value, 0 when it has none.
Contribution(j, stat) ==
    LET f == SampleField(input[j], stat)
    IN  IF f = {} THEN 0 ELSE CHOOSE v \in f : TRUE

RECURSIVE SumOver(_, _)
SumOver(S, stat) ==
    IF S = {} THEN 0
    ELSE LET j == CHOOSE x \in S : TRUE
         IN  Contribution(j, stat) + SumOver(S \ {j}, stat)

AbsentOrZero(avg) == avg = {} \/ avg = {<<0, 1>>}

\* The average q = <<a, b>> is the quotient total / n.
IsQuotient(avg, total, n) ==
    \E q \in avg : avg = {q} /\ q[2] > 0 /\ q[1] * n = total * q[2]

ProcessedSessions == {i \in 1..Processed : IsSession(i)}

-----------------------------------------------------------------------------
\* C1: the sequence handed to the builder holds every message that is neither
\* a FileCreatorMessage nor a LapMessage exactly once and none of those two
\* kinds, so its length is the input's length minus the number of
\* FileCreatorMessage and LapMessage messages.
C1_DropInvariant ==
    InPass =>
        /\ Len(builder) =
              Processed
              - Cardinality({i \in 1..Processed : input[i].kind = "FileCreatorMessage"})
              - Cardinality({i \in 1..Processed : input[i].kind = "LapMessage"})
        /\ \A i \in 1..Processed :
              Cardinality({k \in 1..Len(builder) : builder[k] = i})
                  = IF IsFileCreatorOrLap(i) THEN 0 ELSE 1

C1_Witness ==
    /\ pc = "to_file"
    /\ \E i, j, k \in 1..Len(input) :
          /\ input[i].kind = "FileCreatorMessage"
          /\ input[j].kind = "LapMessage"
          /\ IsSample(k)
    /\ Len(builder) = Len(input) - 2

\* C2: a SessionMessage statistic that comes in absent or zero goes out as
\* the sum of that statistic over the samples since the previous
\* SessionMessage divided by their number (a sample without the value counts
\* 0 in the sum and 1 in the number), and as 0 when there is no such sample.
C2_MeanCorrect ==
    InPass =>
        \A i \in ProcessedSessions : \A stat \in Stats :
            AbsentOrZero(AvgField(input[i], stat)) =>
                LET n == Cardinality(Segment(i))
                    total == SumOver(Segment(i), stat)
                    out == AvgField(records[i], stat)
                IN  IF n = 0 THEN out = {<<0, 1>>}
                    ELSE IsQuotient(out, total, n)

C2_Witness ==
    /\ InPass
    /\ \E i, j \in ProcessedSessions :
          /\ Segment(i) # {}
          /\ \E s \in Segment(i) : input[s].heart_rate = {}
          /\ input[i].avg_heart_rate = {}
          /\ records[i].avg_heart_rate = {<<1, 2>>}
          /\ Segment(j) = {}
          /\ input[j].avg_cadence = {<<0, 1>>}
          /\ records[j].avg_cadence = {<<0, 1>>}

\* C3: the averages of a SessionMessage are those the pass computes on the
\* messages from the previous SessionMessage (exclusive) to this one alone:
\* nothing before the previous SessionMessage and nothing after this one
\* has a part in them.
C3_SegmentIsolation ==
    InPass =>
        \A i \in ProcessedSessions :
            LET lo == PrevSession(i)
                alone == RunPass(SubSeq(input, lo + 1, i)).records[i - lo]
            IN  \A stat \in Stats :
                    AvgField(records[i], stat) = AvgField(alone, stat)

C3_Witness ==
    /\ InPass
    /\ pos > Len(input)
    /\ \E i, j \in ProcessedSessions :
          /\ i < j
          /\ \E a \in Segment(i) : input[a].power = {3}
          /\ \E b \in Segment(j) : input[b].power = {0}
          /\ \A b \in Segment(j) : input[b].power = {0}
          /\ input[j].avg_power = {}
          /\ records[j].avg_power = {<<0, 1>>}

\* C4: a SessionMessage statistic that comes in non-zero goes out as it came,
\* whatever was accumulated and whatever happens to the other two.
C4_NonZeroKept ==
    InPass =>
        \A i \in ProcessedSessions : \A stat \in Stats :
            ~AbsentOrZero(AvgField(input[i], stat)) =>
                AvgField(records[i], stat) = AvgField(input[i], stat)

C4_Witness ==
    /\ InPass
    /\ \E i \in ProcessedSessions :
          /\ input[i].avg_power = {<<7, 1>>}
          /\ records[i].avg_power = {<<7, 1>>}
          /\ \E s \in Segment(i) : input[s].power = {3}
          /\ records[i].avg_cadence # input[i].avg_cadence
          /\ records[i].avg_heart_rate # input[i].avg_heart_rate

\* C5: every RecordMessage handed to the builder has no temperature field,
\* and its other fields are those of the input.
C5_TemperatureRemoved ==
    InPass =>
        \A k \in 1..Len(builder) :
            LET i == builder[k] IN
            IsSample(i) =>
                /\ records[i].temperature = {}
                /\ records[i] = [input[i] EXCEPT !.temperature = {}]

C5_Witness ==
    /\ pc = "to_file"
    /\ \E k1, k2 \in 1..Len(builder) :
          /\ IsSample(builder[k1]) /\ input[builder[k1]].temperature = {25}
          /\ IsSample(builder[k2]) /\ input[builder[k2]].temperature = {}

\* C6: the builder receives the retained messages in the order of the
\* input: the references it holds are strictly increasing and are exactly
\* the messages gone through that are neither FileCreatorMessage nor
\* LapMessage, the samples after the last SessionMessage included.
C6_OrderPreserved ==
    InPass =>
        /\ \A k \in 1..(Len(builder) - 1) : builder[k] < builder[k + 1]
        /\ {builder[k] : k \in 1..Len(builder)}
              = {i \in 1..Processed : ~IsFileCreatorOrLap(i)}
        /\ \A k \in 1..Len(builder) :
              records[builder[k]].kind = input[builder[k]].kind

C6_Witness ==
    /\ pc = "to_file"
    /\ Len(input) = 4
    /\ IsSample(1) /\ IsFileCreatorOrLap(2) /\ IsSession(3) /\ IsSample(4)
    /\ builder = <<1, 3, 4>>

\* C8: throughout the pass the three buffers have one length, the number
\* of RecordMessage messages gone through since the last SessionMessage gone
\* through (or since the start), and hold one value per such message, in
\* order: the message's value, 0 when it has none.
C8_BuffersInStep ==
    InPass =>
        LET seg == Segment(Processed + 1) IN
        \A stat \in Stats :
            /\ Len(Buffer(stat)) = Cardinality(seg)
            /\ \A j \in seg :
                  Buffer(stat)[Cardinality({x \in seg : x <= j})]
                      = Contribution(j, stat)

C8_Witness ==
    /\ pc = "loop"
    /\ Len(input) = 4
    /\ IsSession(1) /\ IsSample(2) /\ IsFileCreatorOrLap(3) /\ IsSample(4)
    /\ input[2].heart_rate = {} /\ input[4].cadence = {}
    /\ pos = 5
    /\ Len(cadence_values) = 2

\* C7: after a run in which processing the file failed, the destination
\* does not exist or holds a complete output.
C7_NoPartialDestination ==
    (pc \in {"main_if", "done", "crashed"} /\ new_file_path = "None") =>
        dest \in {"absent", "complete"}

\* C9: only the file written by a successful cleanup_fit_file is opened and
\* uploaded; when cleanup_and_save_fit_file returns anything else the run
\* opens nothing, uploads nothing and raises nothing.
C9_UploadOnlyCleanedFile ==
    /\ \A p \in opened \cup uploaded : p = "NewFile" /\ dest = "complete"
    /\ new_file_path \in {"None", "EmptyPath"} =>
          /\ opened = {}
          /\ uploaded = {}
          /\ pc # "crashed"

\* C10: a file is cleaned, written or uploaded only with a valid session,
\* and a run whose authentication failed has exited with status 1 and has
\* touched no file.
C10_AuthBeforeWork ==
    /\ (\/ pc \in {"cleanup_and_save", "from_file", "loop", "to_file", "write",
                   "main_if", "done"}
        \/ input # <<>> \/ dest # "absent" \/ opened # {} \/ uploaded # {})
          => session = "valid"
    /\ (pc # "authenticate" /\ session # "valid") =>
          /\ pc \in {"exit", "crashed"}
          /\ exit_status = 1
          /\ dest = "absent" /\ opened = {} /\ uploaded = {} /\ input = <<>>
    /\ (\E k \in 1..Len(auth_path) :
            auth_path[k] \in {"wrong_credentials", "login_error", "resume_error"})
          => pc = "exit" /\ exit_status = 1

C10_Witness ==
    /\ pc = "exit"
    /\ auth_path = <<"session_expired", "wrong_credentials">>
    /\ exit_status = 1

====
